---- MODULE Spec2Model ----
(***************************************************************************)
(* The one-shot trading bot: market lookup, prediction, quote, trade.      *)
(*                                                                         *)
(* Conventions.  A JavaScript string is a sequence of one-character        *)
(* strings.  A bigint is its canonical decimal numeral (what toString()    *)
(* gives), so 10^18 is the numeral "1" followed by eighteen "0".  A value  *)
(* that may be null or undefined is None or Some(v).                       *)
(***************************************************************************)
EXTENDS Integers, Sequences, FiniteSets, TLC

\* Bounds of the model.
MaxGroups == 2        \* market groups in one GraphQL response
MaxMarkets == 3       \* markets in one GraphQL response, over all groups
MaxTs == 2            \* largest end timestamp in a response
MaxContentLen == 3    \* length of the model's reply in a full run
MaxAnswerLen == 5     \* length of the model's reply in SpecPredictor
MaxSizeLen == 3       \* length of the quoter's maxSize string

None == <<>>
Some(v) == <<v>>

VARIABLES
  pc,                    \* the await the program is suspended at, or done / failed
  ETHEREUM_PRIVATE_KEY,  \* module constant read from the environment at load
  OPENAI_API_KEY,        \* process.env.OPENAI_API_KEY as getPrediction reads it
  responseData,          \* fetchNextClosingMarket: the GraphQL response
  nextMarket,            \* fetchNextClosingMarket: the result of the reduce
  content,               \* getPrediction: res.choices[0].message.content
  quote,                 \* getQuote: the quoter's reply
  thrown,                \* the error the settled call rejected with, or "none"
  market,                \* main: the market found
  prediction,            \* main: what getPrediction resolved with
  positionSize,          \* main: what getQuote resolved with
  calls,                 \* the network calls made so far, in order
  quoterUrl,             \* the query the quoter was sent
  txs,                   \* the transactions submitted so far, in order
  receipts,              \* the status of each receipt received so far
  out                    \* the console lines printed so far

vars == <<pc, ETHEREUM_PRIVATE_KEY, OPENAI_API_KEY, responseData, nextMarket, content,
          quote, thrown, market, prediction, positionSize, calls, quoterUrl, txs,
          receipts, out>>

----------------------------------------------------------------------------
\* Strings and numerals.

Range(s) == {s[i] : i \in 1..Len(s)}

Strings(alphabet, n) == UNION {[1..k -> alphabet] : k \in 0..n}

\* s.includes(t)
Includes(s, t) ==
  \E i \in 0..(Len(s) - Len(t)) : \A j \in 1..Len(t) : s[i + j] = t[j]

Digits == <<"0", "1", "2", "3", "4", "5", "6", "7", "8", "9">>

IsDigit(c) == c \in Range(Digits)

DigitValue(c) == (CHOOSE i \in 1..10 : Digits[i] = c) - 1

\* n.toString() for an integer n >= 0
RECURSIVE NumToString(_)
NumToString(n) ==
  IF n < 10 THEN <<Digits[n + 1]>>
  ELSE NumToString(n \div 10) \o <<Digits[(n % 10) + 1]>>

Repeat(c, n) == [i \in 1..n |-> c]

\* the numeral without its leading zeros ("0" for zero)
RECURSIVE StripLeadingZeros(_)
StripLeadingZeros(s) ==
  IF Len(s) > 1 /\ Head(s) = "0" THEN StripLeadingZeros(Tail(s)) ELSE s

\* s.replace(/(0+)$/, '')
RECURSIVE StripTrailingZeros(_)
StripTrailingZeros(s) ==
  IF Len(s) > 0 /\ s[Len(s)] = "0"
    THEN StripTrailingZeros(SubSeq(s, 1, Len(s) - 1))
    ELSE s

IsNegative(numeral) == Len(numeral) > 0 /\ Head(numeral) = "-"

----------------------------------------------------------------------------
\* Numbers as parseInt gives them: a finite integer, or Infinity.

Num(n) == [kind |-> "number", val |-> n]
Infinity == [kind |-> "Infinity", val |-> 0]
NaN == [kind |-> "NaN", val |-> 0]

\* a < b on numbers
LessThan(a, b) ==
  /\ a.kind = "number"
  /\ \/ b.kind = "Infinity"
     \/ b.kind = "number" /\ a.val < b.val

\* the value of the decimal digits s
RECURSIVE DecimalValue(_)
DecimalValue(s) ==
  IF s = <<>> THEN 0
  ELSE 10 * DecimalValue(SubSeq(s, 1, Len(s) - 1)) + DigitValue(s[Len(s)])

\* the longest prefix of s made of digits
RECURSIVE DigitPrefix(_)
DigitPrefix(s) ==
  IF s # <<>> /\ IsDigit(Head(s)) THEN <<Head(s)>> \o DigitPrefix(Tail(s)) ELSE <<>>

\* parseInt(s) for a string without sign or leading blanks
ParseInt(s) ==
  IF DigitPrefix(s) = <<>> THEN NaN ELSE Num(DecimalValue(DigitPrefix(s)))

----------------------------------------------------------------------------
\* fetchNextClosingMarket

\* A market as the query selects it; endTimestamp may be missing, and a public
\* flag that is missing counts like false.
MarketShapes ==
  [endTimestamp : {None} \cup {Some(t) : t \in 1..MaxTs}, public : BOOLEAN]

\* A response of the market API: k groups, the markets `flat` spread over them
\* in order, market i in group g[i].  The query asks for markets that end after
\* the current time, so a timestamp that is present is positive.
GroupsOf(k, flat, g) ==
  [a \in 1..k |->
    [address |-> a,
     markets |->
       LET mine == SelectSeq([i \in 1..Len(flat) |-> i], LAMBDA i : g[i] = a)
       IN [j \in 1..Len(mine) |->
            [marketId |-> j,
             endTimestamp |-> flat[mine[j]].endTimestamp,
             public |-> flat[mine[j]].public]]]]

Splits(n, k) == {g \in [1..n -> 1..k] : \A i \in 1..(n - 1) : g[i] <= g[i + 1]}

\* group.markets.map(market => ({...market, marketGroup: {address: group.address}}))
\* (a group without markets gives [], as does one with an empty list)
WithGroup(group) ==
  [j \in 1..Len(group.markets) |->
    [marketId |-> group.markets[j].marketId,
     endTimestamp |-> group.markets[j].endTimestamp,
     public |-> group.markets[j].public,
     marketGroup |-> [address |-> group.address]]]

\* marketGroups.flatMap(...)
RECURSIVE FlatMap(_)
FlatMap(groups) ==
  IF groups = <<>> THEN <<>> ELSE WithGroup(Head(groups)) \o FlatMap(Tail(groups))

\* the filter left out
AnyMarkets(markets) == markets

\* .filter(market => market.public === true)
PublicMarkets(markets) == SelectSeq(markets, LAMBDA m : m.public = TRUE)

\* a missing timestamp counted as 0 instead of Infinity
EndTimeOrZero(m) ==
  IF m.endTimestamp # None /\ m.endTimestamp[1] # 0
    THEN ParseInt(NumToString(m.endTimestamp[1]))
    ELSE Num(0)

\* market.endTimestamp ? parseInt(market.endTimestamp.toString()) : Infinity
\* (a timestamp of 0 is falsy, like a missing one)
EndTime(m) ==
  IF m.endTimestamp # None /\ m.endTimestamp[1] # 0
    THEN ParseInt(NumToString(m.endTimestamp[1]))
    ELSE Infinity

\* the callback with <= for <: the last minimal market wins
EarlierOrEqual(earliest, m) ==
  IF earliest = None THEN Some(m)
  ELSE IF ~LessThan(EndTime(earliest[1]), EndTime(m)) THEN Some(m) ELSE earliest

\* the callback of the reduce
Earlier(earliest, m) ==
  IF earliest = None THEN Some(m)
  ELSE IF LessThan(EndTime(m), EndTime(earliest[1])) THEN Some(m) ELSE earliest

\* markets.reduce(callback, null)
RECURSIVE Reduce(_, _)
Reduce(markets, earliest) ==
  IF markets = <<>> THEN earliest
  ELSE Reduce(Tail(markets), Earlier(earliest, Head(markets)))

\* lines 47-62: responseData?.marketGroups?.flatMap(...)?.filter(...)?.reduce(...)
NextMarket(data) ==
  IF data = None THEN None ELSE Reduce(PublicMarkets(FlatMap(data[1])), None)

NoMarkets == "No active markets found."

----------------------------------------------------------------------------
\* viem's unit conversions

\* BigInt(s) of a string: blanks trimmed, an empty string is 0n, then an
\* optional sign and decimal digits; anything else is a SyntaxError.
Blank(c) == c \in {" ", "\n", "\t"}

RECURSIVE TrimStart(_)
TrimStart(s) == IF s # <<>> /\ Blank(Head(s)) THEN TrimStart(Tail(s)) ELSE s

RECURSIVE TrimEnd(_)
TrimEnd(s) ==
  IF s # <<>> /\ Blank(s[Len(s)]) THEN TrimEnd(SubSeq(s, 1, Len(s) - 1)) ELSE s

\* s.trim()
Trim(s) == TrimEnd(TrimStart(s))

AllDigits(s) == s # <<>> /\ \A i \in 1..Len(s) : IsDigit(s[i])

\* the sign dropped
Magnitude(neg, magnitude) == magnitude

\* the sign the numeral keeps: BigInt("-5") is -5n, BigInt("-0") is 0n
Signed(neg, magnitude) ==
  IF neg /\ magnitude # <<"0">> THEN <<"-">> \o magnitude ELSE magnitude

BigInt(s) ==
  LET t == Trim(s)
      signed == t # <<>> /\ Head(t) \in {"-", "+"}
      body == IF signed THEN Tail(t) ELSE t
  IN IF t = <<>> THEN [ok |-> TRUE, value |-> <<"0">>]
     ELSE IF AllDigits(body)
       THEN [ok |-> TRUE, value |-> Signed(Head(t) = "-", StripLeadingZeros(body))]
       ELSE [ok |-> FALSE, value |-> <<>>]

Decimals == 18

IndexOf(s, c) ==
  IF c \in Range(s) THEN CHOOSE i \in 1..Len(s) : s[i] = c /\ \A j \in 1..(i - 1) : s[j] # c
  ELSE 0

\* parseUnits(value, decimals) for a value with at most `decimals` fraction digits
ParseUnits(value, decimals) ==
  LET negative == IsNegative(value)
      v == IF negative THEN Tail(value) ELSE value
      dot == IndexOf(v, ".")
      integer == IF dot = 0 THEN v ELSE SubSeq(v, 1, dot - 1)
      fraction == StripTrailingZeros(IF dot = 0 THEN <<"0">> ELSE SubSeq(v, dot + 1, Len(v)))
      padded == fraction \o Repeat("0", decimals - Len(fraction))
  IN BigInt((IF negative THEN <<"-">> ELSE <<>>) \o integer \o padded).value

ParseEther(value) == ParseUnits(value, Decimals)

\* formatUnits(value, decimals)
FormatUnits(value, decimals) ==
  LET negative == IsNegative(value)
      digits == IF negative THEN Tail(value) ELSE value
      display == Repeat("0", decimals - Len(digits)) \o digits
      integer == SubSeq(display, 1, Len(display) - decimals)
      fraction == StripTrailingZeros(SubSeq(display, Len(display) - decimals + 1, Len(display)))
  IN (IF negative THEN <<"-">> ELSE <<>>)
       \o (IF integer = <<>> THEN <<"0">> ELSE integer)
       \o (IF fraction = <<>> THEN <<>> ELSE <<".">> \o fraction)

FormatEther(wei) == FormatUnits(wei, Decimals)

WAGER_AMOUNT == ParseEther(<<"1">>)

----------------------------------------------------------------------------
\* getPrediction

UpperCase == <<"A", "B", "C", "D", "E", "F", "G", "H", "I", "J", "K", "L", "M",
               "N", "O", "P", "Q", "R", "S", "T", "U", "V", "W", "X", "Y", "Z">>
LowerCase == <<"a", "b", "c", "d", "e", "f", "g", "h", "i", "j", "k", "l", "m",
               "n", "o", "p", "q", "r", "s", "t", "u", "v", "w", "x", "y", "z">>

\* s.toLowerCase()
ToLowerCase(s) ==
  [i \in 1..Len(s) |->
    IF s[i] \in Range(UpperCase)
      THEN LowerCase[CHOOSE k \in 1..Len(UpperCase) : UpperCase[k] = s[i]]
      ELSE s[i]]

\* line 104
Answer(text) == ToLowerCase(Trim(text))

NoParse == "Couldn't parse a prediction"
NoContent == "Failed to get a valid response from OpenAI API."

\* the two tests in the other order
ClassifyNoFirst(text) ==
  IF Includes(Answer(text), <<"n", "o">>)
    THEN [thrown |-> "none", returned |-> Some(<<"0">>)]
  ELSE IF Includes(Answer(text), <<"y", "e", "s">>)
    THEN [thrown |-> "none", returned |-> Some(ParseEther(<<"1">>))]
  ELSE [thrown |-> NoParse, returned |-> None]

\* lines 104-118: what getPrediction returns or throws for the reply `text`
Classify(text) ==
  IF Includes(Answer(text), <<"y", "e", "s">>)
    THEN [thrown |-> "none", returned |-> Some(ParseEther(<<"1">>))]
  ELSE IF Includes(Answer(text), <<"n", "o">>)
    THEN [thrown |-> "none", returned |-> Some(<<"0">>)]
  ELSE [thrown |-> NoParse, returned |-> None]

\* the replies of the language model
Letters == {"Y", "e", "s", "N", "o", " "}

----------------------------------------------------------------------------
\* getQuote

\* lines 123-128
ExpectedPrice(p) ==
  IF p = <<"0">> THEN <<"0", ".", "0", "0", "0", "0", "0", "0", "9">> ELSE FormatEther(p)

\* line 130: the parts of the quoter URL
QuoterUrl(marketAddress, marketId, p) ==
  [marketAddress |-> marketAddress,
   marketId |-> marketId,
   collateralAvailable |-> WAGER_AMOUNT,
   expectedPrice |-> ExpectedPrice(p)]

QuoterFailed == "Quoter API request failed"
BadJson == "SyntaxError: invalid json response body"
BadBigInt == "Cannot convert to a BigInt"

\* the replies of the quoter: a status that is ok or not and, when ok, a body
\* that is JSON or not with a maxSize string that may be missing
SizeChars == {"-", "0", "5", "."}
QuoterReplies ==
  {[ok |-> FALSE, json |-> FALSE, maxSize |-> None],
   [ok |-> TRUE, json |-> FALSE, maxSize |-> None],
   [ok |-> TRUE, json |-> TRUE, maxSize |-> None]}
  \cup {[ok |-> TRUE, json |-> TRUE, maxSize |-> Some(s)] : s \in Strings(SizeChars, MaxSizeLen)}

\* lines 133-143: what getQuote returns or throws for the reply r
Quote(r) ==
  IF ~r.ok THEN [thrown |-> QuoterFailed, returned |-> None]
  ELSE IF ~r.json THEN [thrown |-> BadJson, returned |-> None]
  ELSE IF r.maxSize = None \/ ~BigInt(r.maxSize[1]).ok
    THEN [thrown |-> BadBigInt, returned |-> None]
  ELSE [thrown |-> "none", returned |-> Some(BigInt(r.maxSize[1]).value)]

----------------------------------------------------------------------------
\* The environment

\* a variable of the environment: unset, empty, or a value
Key == <<"k">>
EnvValues == {None, Some(<<>>), Some(Key)}

\* the signing key may also be a string that is no private key
NoKey == <<"?">>
SigningKeys == EnvValues \cup {Some(NoKey)}

\* line 151: privateKeyToAccount throws for a string that is no private key
InvalidKey == "invalid private key"

\* a test for undefined only
Defined(v) == v # None

\* the truthiness of a string that may be undefined
Truthy(v) == v # None /\ v[1] # <<>>

----------------------------------------------------------------------------
\* The run

Line(text) == [text |-> text, arg |-> <<>>]
LineWith(text, arg) == [text |-> text, arg |-> arg]

Tx(functionName, address, args) ==
  [functionName |-> functionName, address |-> address, args |-> args]

SUSDS_ADDRESS == "0x5875eEE11Cf8398102FdAd704C9E96607675467a"

\* line 175: the deadline, in seconds after the clock's reading
DeadlineAfter == 60 * 60

Rejected == "rejected"

Init ==
  /\ pc = "start"
  /\ ETHEREUM_PRIVATE_KEY \in SigningKeys
  /\ OPENAI_API_KEY = None    \* not read before getPrediction runs
  /\ responseData = None
  /\ nextMarket = None
  /\ content = None
  /\ quote = None
  /\ thrown = "none"
  /\ market = None
  /\ prediction = None
  /\ positionSize = None
  /\ calls = <<>>
  /\ quoterUrl = None
  /\ txs = <<>>
  /\ receipts = <<>>
  /\ out = <<>>

\* lines 192-193, 16-44: main calls fetchNextClosingMarket, which sends the query
Start ==
  /\ pc = "start"
  /\ calls' = Append(calls, "request")
  /\ pc' = "await request"
  /\ UNCHANGED <<ETHEREUM_PRIVATE_KEY, OPENAI_API_KEY, responseData, nextMarket, content,
                 quote, thrown, market, prediction, positionSize, quoterUrl, txs,
                 receipts, out>>

\* an awaited network call rejects, and with it the function that awaits it
Rejects(at, caller) ==
  /\ pc = at
  /\ thrown' = Rejected
  /\ pc' = caller
  /\ UNCHANGED <<ETHEREUM_PRIVATE_KEY, OPENAI_API_KEY, responseData, nextMarket, content,
                 quote, market, prediction, positionSize, calls, quoterUrl, txs,
                 receipts, out>>

RequestRejects == Rejects("await request", "await fetchNextClosingMarket")

\* lines 39-68: the response arrives; the reduce, the check, the return
RequestResolves(groups, markets) ==
  /\ pc = "await request"
  /\ \E k \in 0..groups, n \in 0..markets :
     \E flat \in [1..n -> MarketShapes], g \in Splits(n, k) :
     \E data \in {None, Some(GroupsOf(k, flat, g))} :
       /\ responseData' = data
       /\ nextMarket' = NextMarket(data)
       /\ thrown' = IF NextMarket(data) = None THEN NoMarkets ELSE "none"
  /\ pc' = "await fetchNextClosingMarket"
  /\ UNCHANGED <<ETHEREUM_PRIVATE_KEY, OPENAI_API_KEY, content, quote, market, prediction,
                 positionSize, calls, quoterUrl, txs, receipts, out>>

\* the run started again after a failure
CatchAndRetry ==
  /\ pc \in {"await fetchNextClosingMarket", "await getPrediction", "await getQuote",
             "await trade"}
  /\ thrown # "none"
  /\ out' = Append(out, LineWith("error", <<thrown>>))
  /\ pc' = "start"
  /\ UNCHANGED <<ETHEREUM_PRIVATE_KEY, OPENAI_API_KEY, responseData, nextMarket, content,
                 quote, thrown, market, prediction, positionSize, calls, quoterUrl, txs,
                 receipts>>

\* line 224: the rejection reaches .catch(console.error)
Catch ==
  /\ pc \in {"await fetchNextClosingMarket", "await getPrediction", "await getQuote",
             "await trade"}
  /\ thrown # "none"
  /\ out' = Append(out, LineWith("error", <<thrown>>))
  /\ pc' = "failed"
  /\ responseData' = None
  /\ nextMarket' = None
  /\ content' = None
  /\ quote' = None
  /\ UNCHANGED <<ETHEREUM_PRIVATE_KEY, OPENAI_API_KEY, thrown, market, prediction,
                 positionSize, calls, quoterUrl, txs, receipts>>

\* lines 193-202, 72-95: main has the market (from here on it reads its id and
\* its group's address, and its question, a text no step looks into) and
\* calls getPrediction, which returns at once without a key and sends the
\* question to the model with one
MainAfterMarket ==
  /\ pc = "await fetchNextClosingMarket"
  /\ thrown = "none"
  /\ market' = Some([marketId |-> nextMarket[1].marketId,
                     marketGroup |-> nextMarket[1].marketGroup])
  /\ responseData' = None
  /\ nextMarket' = None
  /\ \E key \in EnvValues :
       /\ OPENAI_API_KEY' = key
       /\ IF Truthy(key)
            THEN /\ calls' = Append(calls, "create")
                 /\ out' = out \o <<Line("Found an active market..."),
                                    Line("Asking ChatGPT for an answer...")>>
                 /\ pc' = "await create"
                 /\ prediction' = None
            ELSE /\ calls' = calls
                 /\ out' = out \o <<Line("Found an active market..."),
                                    Line("Asking ChatGPT for an answer..."),
                                    Line("OpenAI API key not found. Defaulting to \"Yes\".")>>
                 /\ pc' = "await getPrediction"
                 /\ prediction' = Some(ParseEther(<<"1">>))
  /\ UNCHANGED <<ETHEREUM_PRIVATE_KEY, content, quote, thrown, positionSize, quoterUrl,
                 txs, receipts>>

CreateRejects == Rejects("await create", "await getPrediction")

\* lines 97-118: the model's reply arrives; a reply without text, or the
\* classification of its text
CreateResolves(maxLen) ==
  /\ pc = "await create"
  /\ \E reply \in {None} \cup {Some(text) : text \in Strings(Letters, maxLen)} :
       /\ content' = reply
       /\ IF reply = None
            THEN /\ thrown' = NoContent
                 /\ prediction' = None
                 /\ out' = Append(out, Line("Invalid response structure from OpenAI API:"))
            ELSE /\ thrown' = Classify(reply[1]).thrown
                 /\ prediction' = Classify(reply[1]).returned
                 /\ out' = Append(out, Line("content"))
  /\ pc' = "await getPrediction"
  /\ UNCHANGED <<ETHEREUM_PRIVATE_KEY, OPENAI_API_KEY, responseData, nextMarket, quote,
                 market, positionSize, calls, quoterUrl, txs, receipts>>

\* lines 202-209, 122-132: main has the prediction and calls getQuote, which
\* sends the query to the quoter
MainAfterPrediction ==
  /\ pc = "await getPrediction"
  /\ thrown = "none"
  /\ content' = None
  /\ out' = Append(out, Line("Retrieving a quote for a $1 wager on market outcome..."))
  /\ quoterUrl' = Some(QuoterUrl(market[1].marketGroup.address,
                                 NumToString(market[1].marketId), prediction[1]))
  /\ calls' = Append(calls, "fetch")
  /\ pc' = "await fetch"
  /\ UNCHANGED <<ETHEREUM_PRIVATE_KEY, OPENAI_API_KEY, responseData, nextMarket, quote,
                 thrown, market, prediction, positionSize, txs, receipts>>

FetchRejects == Rejects("await fetch", "await getQuote")

\* lines 132-143: the quoter's reply arrives
FetchResolves ==
  /\ pc = "await fetch"
  /\ \E reply \in QuoterReplies :
       /\ quote' = Some(reply)
       /\ thrown' = Quote(reply).thrown
       /\ positionSize' = Quote(reply).returned
       /\ out' = IF reply.ok THEN out ELSE Append(out, Line(QuoterFailed))
  /\ pc' = "await getQuote"
  /\ UNCHANGED <<ETHEREUM_PRIVATE_KEY, OPENAI_API_KEY, responseData, nextMarket, content,
                 market, prediction, calls, quoterUrl, txs, receipts>>

\* lines 209-223, 147-171: main has the position size; with a signing key it
\* calls trade, which makes the account of the key and submits the approve
\* transaction, and without one it prints the trade size and is done
MainAfterQuote ==
  /\ pc = "await getQuote"
  /\ thrown = "none"
  /\ quote' = None
  /\ IF Truthy(ETHEREUM_PRIVATE_KEY)
       THEN IF ETHEREUM_PRIVATE_KEY[1] = Key
         THEN /\ out' = out \o <<LineWith("Submitting trade with a size of",
                                          FormatEther(positionSize[1])),
                                 Line("Approving token spend...")>>
              /\ txs' = Append(txs, Tx("approve", SUSDS_ADDRESS,
                                       <<market[1].marketGroup.address, WAGER_AMOUNT>>))
              /\ calls' = Append(calls, "approve")
              /\ thrown' = thrown
              /\ pc' = "await approve"
         ELSE /\ out' = Append(out, LineWith("Submitting trade with a size of",
                                             FormatEther(positionSize[1])))
              /\ txs' = txs
              /\ calls' = calls
              /\ thrown' = InvalidKey
              /\ pc' = "await trade"
       ELSE /\ out' = out \o <<LineWith("Trade Size:", FormatEther(positionSize[1])),
                               Line("Add an Ethereum private key to your .env file to submit trades."),
                               Line("Done!")>>
            /\ txs' = txs
            /\ calls' = calls
            /\ thrown' = thrown
            /\ pc' = "done"
  /\ UNCHANGED <<ETHEREUM_PRIVATE_KEY, OPENAI_API_KEY, responseData, nextMarket, content,
                 market, prediction, positionSize, quoterUrl, receipts>>

ApproveRejects == Rejects("await approve", "await trade")

\* the receipt of the approve transaction not awaited
ApproveResolvesUnawaited ==
  /\ pc = "await approve"
  /\ out' = Append(out, Line("Creating trader position..."))
  /\ txs' = Append(txs, Tx("createTraderPosition", market[1].marketGroup.address,
                           <<NumToString(market[1].marketId), positionSize[1], WAGER_AMOUNT,
                             DeadlineAfter>>))
  /\ calls' = calls \o <<"approve receipt", "createTraderPosition">>
  /\ pc' = "await createTraderPosition"
  /\ UNCHANGED <<ETHEREUM_PRIVATE_KEY, OPENAI_API_KEY, responseData, nextMarket, content,
                 quote, thrown, market, prediction, positionSize, quoterUrl, receipts>>

\* lines 166-172: the approve transaction is submitted; trade waits for its receipt
ApproveResolves ==
  /\ pc = "await approve"
  /\ calls' = Append(calls, "approve receipt")
  /\ pc' = "await approve receipt"
  /\ UNCHANGED <<ETHEREUM_PRIVATE_KEY, OPENAI_API_KEY, responseData, nextMarket, content,
                 quote, thrown, market, prediction, positionSize, quoterUrl, txs,
                 receipts, out>>

ApproveReceiptRejects == Rejects("await approve receipt", "await trade")

\* lines 172-184: the receipt arrives, whatever its status; trade submits the
\* position
ApproveReceiptResolves ==
  /\ pc = "await approve receipt"
  /\ \E status \in {"success", "reverted"} : receipts' = Append(receipts, status)
  /\ out' = Append(out, Line("Creating trader position..."))
  /\ txs' = Append(txs, Tx("createTraderPosition", market[1].marketGroup.address,
                           <<NumToString(market[1].marketId), positionSize[1], WAGER_AMOUNT,
                             DeadlineAfter>>))
  /\ calls' = Append(calls, "createTraderPosition")
  /\ pc' = "await createTraderPosition"
  /\ UNCHANGED <<ETHEREUM_PRIVATE_KEY, OPENAI_API_KEY, responseData, nextMarket, content,
                 quote, thrown, market, prediction, positionSize, quoterUrl>>

PositionRejects == Rejects("await createTraderPosition", "await trade")

\* lines 179-185: the position is submitted; trade waits for its receipt
PositionResolves ==
  /\ pc = "await createTraderPosition"
  /\ calls' = Append(calls, "createTraderPosition receipt")
  /\ pc' = "await createTraderPosition receipt"
  /\ UNCHANGED <<ETHEREUM_PRIVATE_KEY, OPENAI_API_KEY, responseData, nextMarket, content,
                 quote, thrown, market, prediction, positionSize, quoterUrl, txs,
                 receipts, out>>

PositionReceiptRejects == Rejects("await createTraderPosition receipt", "await trade")

\* lines 185-190: the receipt arrives, whatever its status; trade returns
PositionReceiptResolves ==
  /\ pc = "await createTraderPosition receipt"
  /\ \E status \in {"success", "reverted"} : receipts' = Append(receipts, status)
  /\ out' = out \o <<Line("Success!"), Line("tx url")>>
  /\ pc' = "await trade"
  /\ UNCHANGED <<ETHEREUM_PRIVATE_KEY, OPENAI_API_KEY, responseData, nextMarket, content,
                 quote, thrown, market, prediction, positionSize, calls, quoterUrl, txs>>

\* lines 214-223: trade has returned
MainAfterTrade ==
  /\ pc = "await trade"
  /\ thrown = "none"
  /\ out' = Append(out, Line("Done!"))
  /\ pc' = "done"
  /\ UNCHANGED <<ETHEREUM_PRIVATE_KEY, OPENAI_API_KEY, responseData, nextMarket, content,
                 quote, thrown, market, prediction, positionSize, calls, quoterUrl, txs,
                 receipts>>

Next ==
  \/ Start
  \/ RequestRejects
  \/ RequestResolves(MaxGroups, MaxMarkets)
  \/ Catch
  \/ MainAfterMarket
  \/ CreateRejects
  \/ CreateResolves(MaxContentLen)
  \/ MainAfterPrediction
  \/ FetchRejects
  \/ FetchResolves
  \/ MainAfterQuote
  \/ ApproveRejects
  \/ ApproveResolves
  \/ ApproveReceiptRejects
  \/ ApproveReceiptResolves
  \/ PositionRejects
  \/ PositionResolves
  \/ PositionReceiptRejects
  \/ PositionReceiptResolves
  \/ MainAfterTrade

Spec == Init /\ [][Next]_vars

\* The run with a single market found and replies of the model up to
\* MaxAnswerLen characters, as far as getPrediction's result.
NextPredictor ==
  \/ Start
  \/ RequestResolves(1, 1)
  \/ MainAfterMarket
  \/ CreateResolves(MaxAnswerLen)

SpecPredictor == Init /\ [][NextPredictor]_vars

----------------------------------------------------------------------------
\* Properties of the market finder

\* fetchNextClosingMarket has settled on a response of the market API
Answered == pc = "await fetchNextClosingMarket" /\ thrown # Rejected

Groups == IF responseData = None THEN <<>> ELSE responseData[1]

\* the places of the response: market j of group a
Places == UNION {{<<a, j>> : j \in 1..Len(Groups[a].markets)} : a \in 1..Len(Groups)}

MarketAt(p) == Groups[p[1]].markets[p[2]]

PublicPlaces == {p \in Places : MarketAt(p).public = TRUE}

\* p is encountered no later than q: group order, then market order
NoLaterPlace(p, q) == p[1] < q[1] \/ (p[1] = q[1] /\ p[2] <= q[2])

\* end timestamp x is at most y, a missing timestamp being the latest of all
AtMost(x, y) == y = None \/ (x # None /\ x[1] <= y[1])

ReturnedPlace == <<nextMarket[1].marketGroup.address, nextMarket[1].marketId>>

\* C1: when the response holds a public market, the market returned is a
\* public market of the response whose end timestamp is at most that of every
\* public market, and the first encountered of those with that timestamp; a
\* private market is never returned.
C1_EarliestPublicMarket ==
  (Answered /\ PublicPlaces # {}) =>
    /\ thrown = "none"
    /\ nextMarket # None
    /\ ReturnedPlace \in PublicPlaces
    /\ nextMarket[1].public = TRUE
    /\ nextMarket[1].endTimestamp = MarketAt(ReturnedPlace).endTimestamp
    /\ \A q \in PublicPlaces :
         /\ AtMost(nextMarket[1].endTimestamp, MarketAt(q).endTimestamp)
         /\ MarketAt(q).endTimestamp = nextMarket[1].endTimestamp
              => NoLaterPlace(ReturnedPlace, q)

\* a private market ends before every public one, and two public markets
\* share the earliest public timestamp
C1_Witness ==
  /\ Answered
  /\ nextMarket # None
  /\ \E p \in Places \ PublicPlaces :
       /\ MarketAt(p).endTimestamp # None
       /\ ~AtMost(nextMarket[1].endTimestamp, MarketAt(p).endTimestamp)
  /\ \E q \in PublicPlaces \ {ReturnedPlace} :
       MarketAt(q).endTimestamp = nextMarket[1].endTimestamp

\* C2: a response without a public market makes fetchNextClosingMarket fail
\* with 'No active markets found.', and a run that failed so has asked neither
\* the model nor the quoter and has submitted no transaction.
C2_NoActiveMarkets ==
  /\ (Answered /\ PublicPlaces = {}) => (thrown = NoMarkets /\ nextMarket = None)
  /\ thrown = NoMarkets =>
       /\ pc \in {"await fetchNextClosingMarket", "failed"}
       /\ calls = <<"request">>
       /\ quoterUrl = None
       /\ txs = <<>>
       /\ receipts = <<>>
       /\ pc = "failed" => out = <<LineWith("error", <<NoMarkets>>)>>

\* the response holds markets, none of them public
C2_Witness ==
  /\ Answered
  /\ Places # {}
  /\ PublicPlaces = {}
  /\ thrown = NoMarkets

\* C10: a public market without end timestamp is returned only when no public
\* market has one, and then it is the first public market encountered; when
\* some public market has an end timestamp, so has the market returned,
\* wherever the markets stand in the response.
C10_MissingTimestampLast ==
  (Answered /\ PublicPlaces # {}) =>
    /\ nextMarket # None
    /\ nextMarket[1].endTimestamp = None =>
         /\ \A q \in PublicPlaces : MarketAt(q).endTimestamp = None
         /\ \A q \in PublicPlaces : NoLaterPlace(ReturnedPlace, q)
    /\ (\E q \in PublicPlaces : MarketAt(q).endTimestamp # None) =>
         nextMarket[1].endTimestamp # None

\* the first public market has no end timestamp, a later one has
C10_Witness ==
  /\ Answered
  /\ nextMarket # None
  /\ nextMarket[1].endTimestamp # None
  /\ \E p \in PublicPlaces :
       /\ MarketAt(p).endTimestamp = None
       /\ \A q \in PublicPlaces : NoLaterPlace(p, q)

----------------------------------------------------------------------------
\* Properties of the predictor

\* 10^18 as a numeral
OneEther == <<"1">> \o [i \in 1..18 |-> "0"]

\* an environment variable that is unset or empty
NotConfigured(v) == v = None \/ v = Some(<<>>)

SaysYes == Includes(ToLowerCase(content[1]), <<"y", "e", "s">>)
SaysNo == Includes(ToLowerCase(content[1]), <<"n", "o">>)

\* C3: with a key and a reply that is text, getPrediction returns 10^18 when
\* the lower-cased reply contains "yes", with or without "no"; 0 when it
\* contains "no" and not "yes"; fails with "Couldn't parse a prediction" when
\* it contains neither; and returns nothing but 0 or 10^18.
C3_YesBeforeNo ==
  (pc = "await getPrediction" /\ content # None) =>
    /\ ~NotConfigured(OPENAI_API_KEY)
    /\ SaysYes => (thrown = "none" /\ prediction = Some(OneEther))
    /\ (SaysNo /\ ~SaysYes) => (thrown = "none" /\ prediction = Some(<<"0">>))
    /\ (~SaysNo /\ ~SaysYes) => (thrown = NoParse /\ prediction = None)
    /\ prediction \in {None, Some(<<"0">>), Some(OneEther)}

\* the reply contains "no" and, after it, "yes" in capitals
C3_Witness ==
  /\ pc = "await getPrediction"
  /\ content # None
  /\ SaysYes
  /\ SaysNo
  /\ ~Includes(content[1], <<"y", "e", "s">>)
  /\ prediction = Some(OneEther)

\* C9 as stated: without a key getPrediction asks no model, returns 10^18,
\* cannot fail to parse, and the quoter is then sent the expected price "1.0".
C9_DefaultYes ==
  (market # None /\ NotConfigured(OPENAI_API_KEY)) =>
    /\ "create" \notin Range(calls)
    /\ pc # "await create"
    /\ content = None
    /\ prediction = Some(OneEther)
    /\ thrown # NoParse
    /\ pc = "await getPrediction" => thrown = "none"
    /\ quoterUrl # None => quoterUrl[1].expectedPrice = <<"1", ".", "0">>

----------------------------------------------------------------------------
\* Properties of the quoter

Sentinel == <<"0", ".", "0", "0", "0", "0", "0", "0", "9">>

\* a decimal string that denotes a number above zero
Positive(decimal) ==
  /\ ~IsNegative(decimal)
  /\ \E i \in 1..Len(decimal) : IsDigit(decimal[i]) /\ decimal[i] # "0"

\* C7 as stated: the expected price sent is the sentinel exactly when the
\* prediction is 0 and is "1.0" when it is 10^18; it is positive, and the
\* collateral sent is 10^18.
C7_ExpectedPrice ==
  quoterUrl # None =>
    /\ quoterUrl[1].expectedPrice = Sentinel <=> prediction = Some(<<"0">>)
    /\ prediction = Some(OneEther) => quoterUrl[1].expectedPrice = <<"1", ".", "0">>
    /\ Positive(quoterUrl[1].expectedPrice)
    /\ quoterUrl[1].collateralAvailable = OneEther

\* the string the quoter sent in maxSize, when it sent one
MaxSize == quote[1].maxSize[1]

HasMaxSize == quote # None /\ quote[1].ok /\ quote[1].json /\ quote[1].maxSize # None

\* an optional minus sign and then digits
IsInteger(s) ==
  \/ s # <<>> /\ \A i \in 1..Len(s) : IsDigit(s[i])
  \/ Len(s) > 1 /\ Head(s) = "-" /\ \A i \in 2..Len(s) : IsDigit(s[i])

Unsigned(s) == IF IsNegative(s) THEN Tail(s) ELSE s

IsZero(s) == \A i \in 1..Len(s) : s[i] = "0"

\* the size in the position-creation transaction, and the size printed
SizesUsed ==
  {txs[i].args[2] : i \in {j \in 1..Len(txs) : txs[j].functionName = "createTraderPosition"}}

SizesPrinted ==
  {out[i].arg : i \in {j \in 1..Len(out) : out[j].text = "Trade Size:"}}

\* C8 as stated: the position size is never negative, in getQuote's result,
\* in the position-creation transaction and in the dry run's report.
C8_NonNegativeSize ==
  /\ positionSize # None => ~IsNegative(positionSize[1])
  /\ \A size \in SizesUsed : ~IsNegative(size)
  /\ \A size \in SizesPrinted : ~IsNegative(size)

\* C8 as amended: the position size is the signed integer maxSize denotes,
\* negative exactly when maxSize is a minus sign and then a non-zero integer,
\* and that signed value is the one submitted or printed.
C8_SignedSize ==
  /\ (pc = "await getQuote" /\ HasMaxSize /\ IsInteger(MaxSize)) =>
       /\ thrown = "none"
       /\ positionSize # None
       /\ IsNegative(positionSize[1]) <=> (IsNegative(MaxSize) /\ ~IsZero(Tail(MaxSize)))
       /\ Unsigned(positionSize[1]) = StripLeadingZeros(Unsigned(MaxSize))
  /\ \A size \in SizesUsed : positionSize = Some(size)
  /\ \A size \in SizesPrinted : positionSize # None /\ size = FormatEther(positionSize[1])

\* a negative size is submitted in the position-creation transaction
C8_Witness ==
  /\ positionSize # None
  /\ IsNegative(positionSize[1])
  /\ SizesUsed = {positionSize[1]}

----------------------------------------------------------------------------
\* Properties of the run

IsPrefix(s, t) == Len(s) <= Len(t) /\ \A i \in 1..Len(s) : s[i] = t[i]

\* the order of the network calls, with and without a call to the model
WithModel ==
  <<"request", "create", "fetch", "approve", "approve receipt",
    "createTraderPosition", "createTraderPosition receipt">>
WithoutModel ==
  <<"request", "fetch", "approve", "approve receipt",
    "createTraderPosition", "createTraderPosition receipt">>

FunctionNames == [i \in 1..Len(txs) |-> txs[i].functionName]

Printed(text) == \E i \in 1..Len(out) : out[i].text = text

\* C4: without a signing key no approve and no position-creation transaction
\* is ever submitted, and once the quote has succeeded the run prints the
\* trade size it computed and ends with 'Done!'.
C4_DryRun ==
  NotConfigured(ETHEREUM_PRIVATE_KEY) =>
    /\ txs = <<>>
    /\ receipts = <<>>
    /\ Range(calls) \subseteq {"request", "create", "fetch"}
    /\ pc \notin {"await approve", "await approve receipt", "await createTraderPosition",
                  "await createTraderPosition receipt", "await trade"}
    /\ (positionSize # None /\ pc # "await getQuote") =>
         /\ pc = "done"
         /\ Len(out) >= 3
         /\ out[Len(out) - 2] = LineWith("Trade Size:", FormatEther(positionSize[1]))
         /\ out[Len(out)].text = "Done!"
    /\ pc = "done" => positionSize # None
    /\ ~Printed("Success!")

\* the signing key is set but empty, and the dry run has ended
C4_Witness ==
  /\ ETHEREUM_PRIVATE_KEY = Some(<<>>)
  /\ pc = "done"
  /\ Printed("Trade Size:")

\* C5: the position-creation transaction is submitted only after the approve
\* transaction was submitted and its receipt received, never after the
\* submission or the confirmation of the approve failed; 'Success!' is printed
\* only after the receipt of the position-creation transaction was received.
C5_ApproveThenPosition ==
  /\ IsPrefix(FunctionNames, <<"approve", "createTraderPosition">>)
  /\ Len(txs) = 2 =>
       /\ Len(receipts) >= 1
       /\ \E i, j, k \in 1..Len(calls) :
            /\ i < j /\ j < k
            /\ calls[i] = "approve"
            /\ calls[j] = "approve receipt"
            /\ calls[k] = "createTraderPosition"
  /\ (Len(txs) >= 1 /\ receipts = <<>> /\ thrown # "none") => Len(txs) = 1
  /\ Printed("Success!") =>
       /\ Len(receipts) = 2
       /\ "createTraderPosition receipt" \in Range(calls)

\* the approve receipt came back reverted, and the trade went on to the end
C5_Witness ==
  /\ Printed("Success!")
  /\ receipts[1] = "reverted"
  /\ pc = "done"

\* C6, in every state: the calls made are an initial part of the one order of
\* the steps, a step has started only with the results of the steps before
\* it, nothing is awaited once a step has failed, and a failed run printed
\* the error last and never 'Done!'.
C6_Forward ==
  /\ IsPrefix(calls, WithModel) \/ IsPrefix(calls, WithoutModel)
  /\ Len(calls) >= 2 => market # None
  /\ "fetch" \in Range(calls) => (prediction # None /\ quoterUrl # None)
  /\ "approve" \in Range(calls) => positionSize # None
  /\ Len(txs) <= 2
  /\ thrown # "none" =>
       pc \in {"await fetchNextClosingMarket", "await getPrediction", "await getQuote",
               "await trade", "failed"}
  /\ pc = "failed" =>
       /\ thrown # "none"
       /\ out[Len(out)] = LineWith("error", <<thrown>>)
       /\ ~Printed("Done!")
  /\ pc = "done" => thrown = "none"

\* C6, in every step: once a step has failed, the only thing that happens is
\* the printing of the error, with no call and no transaction.
C6_Failed ==
  thrown # "none" =>
    /\ pc' = "failed"
    /\ calls' = calls
    /\ txs' = txs
    /\ receipts' = receipts
    /\ quoterUrl' = quoterUrl
    /\ thrown' = thrown

\* C6: the steps run at most once and in order, each after the success of
\* those before it; after the first failure no call and no transaction is
\* made, the error is printed and 'Done!' is not.
C6_FirstFailureEnds == []C6_Forward /\ [][C6_Failed]_vars

\* the approve went through, the position creation failed, the run has ended
C6_Witness ==
  /\ pc = "failed"
  /\ FunctionNames = <<"approve", "createTraderPosition">>
  /\ Len(receipts) = 1

====
